---- MODULE Spec2Model ----
(***************************************************************************)
(* A model of the kwil-db interpreter (package interpreter): the locking   *)
(* wrapper ThreadSafeInterpreter, the non-locking recursiveInterpreter,    *)
(* NewInterpreter, baseInterpreter.call and baseInterpreter.execute.       *)
(*                                                                         *)
(* Five specifications share this module:                                  *)
(*   Spec      the RWMutex discipline of the two handles, over several     *)
(*             goroutines and nested (re-entrant) calls;                   *)
(*   SpecLog   the log buffers of one call tree (execCtx.logs and the      *)
(*             recursive handle's logs pointer);                           *)
(*   SpecCall  name resolution and dispatch inside baseInterpreter.call;   *)
(*   SpecExec  baseInterpreter.execute: parsing, parameter binding and the *)
(*             statement loop, the same call made twice;                   *)
(*   SpecNew   NewInterpreter from the bootstrap query to its return.      *)
(* Each specification leaves the variables of the others untouched.        *)
(***************************************************************************)
EXTENDS Integers, Sequences, FiniteSets, TLC

\* ------------------------------------------------------------------ bounds
MaxThreads == 2      \* external goroutines calling into the interpreter
MaxAux == 2          \* auxiliaries of one action of a schema
MaxItems == 2        \* actions, tables, extensions of a schema
MaxDepth   == 2      \* frames on one goroutine's call stack (outer + nested)
MaxExts    == 2      \* extension instances built by NewInterpreter
MaxLines   == 3      \* lines one call tree logs
MaxMask    == 1      \* capitalisations of a name, besides the all-lower-case one
MaxParams  == 2      \* entries of the parameter map of one execute
MaxStmts   == 3      \* statements in the text of one execute
MaxRows    == 2      \* rows the bootstrap query of NewInterpreter yields
MaxKeyLen  == 3      \* characters of a parameter key drawn from the whole alphabet

\* ------------------------------------------------------------------ values
None == "none"
NoHolder == <<>>          \* nobody holds the writer mutex

\* sql.AccessMode values, and a handle that is no sql.AccessModer at all
ReadOnly      == "ReadOnly"
ReadWrite     == "ReadWrite"
NoAccessModer == "NoAccessModer"
DBs == {ReadOnly, ReadWrite, NoAccessModer}

\* the two implementations of common.Engine
ThreadSafe == "threadSafe"
Recursive  == "recursive"

Ctor    == 0                      \* the goroutine running NewInterpreter
Callers == 1..MaxThreads          \* goroutines holding the returned handle
Threads == 0..MaxThreads
Exts    == 1..MaxExts

VARIABLES
  \* ---- Spec
  phase,      \* "starting" (OnStart loop of NewInterpreter), "ready", "failed"
  hook,       \* the instance whose OnStart is running, 0 if none
  nstarted,   \* instances whose OnStart has returned nil
  engine,     \* engine[e]: the common.Engine passed to instance e's OnStart
  stack,      \* stack[t]: the calls in progress on goroutine t, outermost first
  mu,         \* ThreadSafeInterpreter.mu: [w: holder of the writer mutex, r: active readers]
  rejected,   \* rejected[t]: the last call on goroutine t failed for want of an AccessModer
  \* ---- SpecLog
  lstack,     \* the calls in progress of one call tree: [op, start, logs], logs = *execCtx.logs
  lseq,       \* how many lines the call tree has logged so far
  lwho,       \* lwho[n]: the depth of the call that logged line n
  lexpect,    \* the lines logged by the outer call and by successfully returned recursive Calls
  lres,       \* what the last outermost call returned: [op, err, nil, logs]
  lret,       \* the last return through the recursive handle: [op, ok, lines, before, after],
              \* lines the returning call's buffer, before/after the invoking call's
  \* ---- SpecCall
  namespaces, \* baseInterpreter.namespaces: name -> [availableFunctions, namespaceType]
  req,        \* the arguments of the last baseInterpreter.call
  out,        \* what that call did and returned
  \* ---- SpecExec
  ereq,       \* the arguments of baseInterpreter.execute: [statement, params, db]
  ex,         \* the execute in progress: its position, scope, and what it has done
  efirst,     \* what the first of the two identical executes did and returned
  \* ---- SpecNew
  nin,        \* what NewInterpreter finds: bootstrap rows, persisted namespaces, extension records
  nw          \* NewInterpreter in progress: its position, catalog, instances, hooks run;
              \* heap holds the function-table maps (heap[1]: builtInExecutables), ref the
              \* map each namespace's availableFunctions points to

lockVars == <<phase, hook, nstarted, engine, stack, mu, rejected>>
logVars  == <<lstack, lseq, lwho, lexpect, lres, lret>>
callVars == <<namespaces, req, out>>
execVars == <<ereq, ex, efirst>>
newVars  == <<nin, nw>>
vars == <<lockVars, logVars, callVars, execVars, newVars>>
otherThanLock == <<logVars, callVars, execVars, newVars>>
otherThanLog  == <<lockVars, callVars, execVars, newVars>>
otherThanCall == <<lockVars, logVars, execVars, newVars>>
otherThanExec == <<lockVars, logVars, callVars, newVars>>
otherThanNew  == <<lockVars, logVars, callVars, execVars>>

\* ------------------------------------------------------------------ ThreadSafeInterpreter.lock
\* Which RWMutex operation lock(db) performs: "err" (no AccessModer), "RLock" or "Lock".
lockAlwaysExclusive(db) ==
  IF db = NoAccessModer THEN "err" ELSE "Lock"

lockAlwaysShared(db) ==
  IF db = NoAccessModer THEN "err" ELSE "RLock"

lockBeforeCheck(db) ==
  IF db = ReadOnly THEN "RLock" ELSE "Lock"

lock(db) ==
  IF db = NoAccessModer THEN "err"
  ELSE IF db = ReadOnly THEN "RLock"
  ELSE "Lock"

\* Does a call through handle h go through lock()?  ThreadSafeInterpreter.Call/Execute
\* do; recursiveInterpreter.Call/Execute call the baseInterpreter directly.
handleLocksAlways(h) == TRUE

handleLocks(h) == h = ThreadSafe

\* newExecCtx: canMutateState: am.AccessMode() == sql.ReadWrite
canMutateStateAlways(db) == TRUE

canMutateState(db) == db = ReadWrite

\* defer unlock() in ThreadSafeInterpreter.Call/Execute: is the lock released when
\* the engine returned a result (ok) or an error (~ok)?
unlockOnSuccess(ok) == ok

deferUnlock(ok) == TRUE

\* The Engine field of the common.App passed to OnStart.
StartEngineRecursive == Recursive

StartEngine == ThreadSafe

\* ------------------------------------------------------------------ sync.RWMutex
\* RLock: a reader enters unless a writer holds (or has announced itself on) the
\* mutex, in which case it blocks until that writer unlocks.
RLock(m, who) ==
  IF m.w = NoHolder
    THEN [mu |-> [m EXCEPT !.r = @ \cup {who}], st |-> "engine"]
    ELSE [mu |-> m, st |-> "blockedR"]

\* Lock: take the writer mutex if free (else wait for it), then wait for the
\* active readers to leave.
Lock(m, who) ==
  IF m.w = NoHolder
    THEN [mu |-> [m EXCEPT !.w = who], st |-> IF m.r = {} THEN "engine" ELSE "pendW"]
    ELSE [mu |-> m, st |-> "waitW"]

\* ------------------------------------------------------------------ frames
Top(t)    == stack[t][Len(stack[t])]
Depth(t)  == Len(stack[t])
Pop(s)    == SubSeq(s, 1, Len(s) - 1)
SetSt(s, st) == [s EXCEPT ![Len(s)].st = st]
Me(t)     == <<t, Len(stack[t])>>

Frame(src, h, db, st) == [src |-> src, h |-> h, mode |-> db, st |-> st]

\* every frame of the system, as <<goroutine, depth>>
Frames == {fd \in Threads \X (1..MaxDepth + 1) : fd[2] <= Len(stack[fd[1]])}
F(fd) == stack[fd[1]][fd[2]]
Inside(fd) == F(fd).st = "engine"

\* ------------------------------------------------------------------ Init
\* what a call returned: nil = no *common.CallResult, else logs = CallResult.Logs
NoResult == [op |-> None, err |-> None, nil |-> TRUE, logs |-> <<>>]

IdleLock ==
  /\ phase = "ready" /\ hook = 0 /\ nstarted = 0
  /\ engine = [e \in Exts |-> None]
  /\ stack = [t \in Threads |-> <<>>]
  /\ mu = [w |-> NoHolder, r |-> {}]
  /\ rejected = [t \in Threads |-> FALSE]

NoReturn == [op |-> None, ok |-> FALSE, lines |-> <<>>, before |-> <<>>, after |-> <<>>]

IdleLog ==
  /\ lstack = <<>> /\ lseq = 0 /\ lwho = <<>> /\ lexpect = {} /\ lres = NoResult
  /\ lret = NoReturn

\* ------------------------------------------------------------------ names
\* A name is its lower-case form together with a mask telling which of its letters
\* are capitals (0: none).  The empty string has no letters.
Name(low, mask) == [low |-> low, mask |-> mask]
EmptyName == Name("", 0)

\* strings.ToLower
ToLowerIdentity(n) == n

ToLower(n) == [n EXCEPT !.mask = 0]

DefaultNamespace == Name("main", 0)

NoExec == [Name |-> EmptyName, Type |-> None]
NoReq  == [namespace |-> EmptyName, action |-> EmptyName, args |-> <<>>, db |-> None,
           b |-> None]
NoOut  == [done |-> FALSE, err |-> None, ns |-> EmptyName, exec |-> NoExec, converted |-> 0,
           sinkCalls |-> 0, queries |-> 0, nil |-> TRUE, logs |-> <<>>]

IdleCall ==
  /\ namespaces = <<>> /\ req = NoReq /\ out = NoOut

\* ---- execute: the state of one run, and what a finished run did and returned
NewRun(run) ==
  [run |-> run, pc |-> "parse", ast |-> <<>>, todo |-> <<>>, keys |-> <<>>, bound |-> <<>>,
   scope |-> <<>>, next |-> 1, ran |-> <<>>, rows |-> <<>>, db |-> 0, err |-> None]
Outcome(x) ==
  [err |-> x.err, keys |-> x.keys, bound |-> x.bound, scope |-> x.scope, ran |-> x.ran,
   rows |-> x.rows, db |-> x.db]
NoOutcome == Outcome(NewRun(0))

IdleExec ==
  /\ ereq = [statement |-> <<>>, params |-> <<>>, db |-> None] /\ ex = NewRun(0) /\ efirst = NoOutcome

\* ---- NewInterpreter: nothing found, nothing begun
NoInput == [count |-> 0, exists |-> FALSE, persisted |-> {}, storedExts |-> <<>>]
NewWork(pc) ==
  [pc |-> pc, err |-> None, ddl |-> 0, todo |-> <<>>, namespaces |-> <<>>, loaded |-> <<>>,
   registered |-> {}, k |-> 1, instances |-> <<>>, h |-> 1, started |-> <<>>,
   heap |-> <<>>, ref |-> <<>>]

IdleNew ==
  /\ nin = NoInput /\ nw = NewWork("idle")

Init ==
  /\ IdleLog
  /\ IdleCall
  /\ IdleExec
  /\ IdleNew
  /\ phase = "starting"
  /\ hook = 0
  /\ nstarted = 0
  /\ engine = [e \in Exts |-> None]
  /\ stack = [t \in Threads |-> <<>>]
  /\ mu = [w |-> NoHolder, r |-> {}]
  /\ rejected = [t \in Threads |-> FALSE]

\* ------------------------------------------------------------------ NewInterpreter, start loop
\* inst.OnStart(ctx, &common.App{..., Engine: threadSafe, ...}) begins
OnStart(e) ==
  /\ phase = "starting" /\ hook = 0
  /\ e = nstarted + 1 /\ e <= MaxExts
  /\ hook' = e
  /\ engine' = [engine EXCEPT ![e] = StartEngine]
  /\ UNCHANGED <<phase, nstarted, stack, mu, rejected>>
  /\ UNCHANGED otherThanLock

\* OnStart returns; an error aborts NewInterpreter
OnStartReturn(ok) ==
  /\ phase = "starting" /\ hook # 0
  /\ stack[Ctor] = <<>>
  /\ hook' = 0
  /\ IF ok THEN nstarted' = hook /\ phase' = phase
           ELSE nstarted' = nstarted /\ phase' = "failed"
  /\ UNCHANGED <<engine, stack, mu, rejected>>
  /\ UNCHANGED otherThanLock

\* return threadSafe, nil
NewInterpreterReturn ==
  /\ phase = "starting" /\ hook = 0 /\ nstarted = MaxExts
  /\ phase' = "ready"
  /\ UNCHANGED <<hook, nstarted, engine, stack, mu, rejected>>
  /\ UNCHANGED otherThanLock

\* ------------------------------------------------------------------ entering a call
\* A call through handle h with database handle db is pushed on t's stack.  A
\* locking handle starts in lock(); the recursive handle is in the engine at once.
Enter(t, src, h, db) ==
  /\ Depth(t) < MaxDepth
  /\ stack' = [stack EXCEPT ![t] =
        Append(@, Frame(src, h, db, IF handleLocks(h) THEN "lock" ELSE "engine"))]
  /\ rejected' = [rejected EXCEPT ![t] = FALSE]
  /\ UNCHANGED <<phase, hook, nstarted, engine, mu>>
  /\ UNCHANGED otherThanLock

\* The handle goroutine t calls through from outside any call: the one NewInterpreter
\* returned, or, inside a start hook, the Engine that hook was given.
\* threadSafe is created after the extension loop and given to NewInterpreter's
\* caller only by "return threadSafe, nil": outside goroutines call once it returned.
handleSharedEarly(ph) == TRUE

handleReturned(ph) == ph = "ready"

OuterHandle(t) == IF t = Ctor THEN engine[hook] ELSE ThreadSafe
OuterSrc(t)    == IF t = Ctor THEN "start" ELSE "caller"
MayCall(t) ==
  /\ stack[t] = <<>>
  /\ IF t = Ctor THEN phase = "starting" /\ hook # 0 ELSE handleReturned(phase)

\* ThreadSafeInterpreter.Call is invoked
Call(t, db) == MayCall(t) /\ Enter(t, OuterSrc(t), OuterHandle(t), db)

\* ThreadSafeInterpreter.Execute is invoked
Execute(t, db) == MayCall(t) /\ Enter(t, OuterSrc(t), OuterHandle(t), db)

InEngine(t) == stack[t] # <<>> /\ Top(t).st = "engine" /\ Top(t).mode # NoAccessModer

\* An extension method running inside the current call calls back through the
\* recursive handle it was given.
RecursiveCall(t, db) == InEngine(t) /\ Enter(t, "method", Recursive, db)

RecursiveExecute(t, db) == InEngine(t) /\ Enter(t, "method", Recursive, db)

\* Code of extension e running inside the current call calls back through the
\* Engine it kept from its start hook.
StartHandleCall(t, e, db) ==
  /\ InEngine(t) /\ engine[e] # None
  /\ Enter(t, "start", engine[e], db)

\* ------------------------------------------------------------------ lock()
\* unlock, err := t.lock(db): the AccessModer check and the first step of RLock/Lock
LockStep(t) ==
  /\ stack[t] # <<>> /\ Top(t).st = "lock"
  /\ LET k == lock(Top(t).mode) IN
     CASE k = "err" ->
            /\ stack' = [stack EXCEPT ![t] = Pop(@)]
            /\ rejected' = [rejected EXCEPT ![t] = TRUE]
            /\ mu' = mu
       [] k = "RLock" ->
            LET a == RLock(mu, Me(t)) IN
            /\ mu' = a.mu
            /\ stack' = [stack EXCEPT ![t] = SetSt(@, a.st)]
            /\ rejected' = rejected
       [] OTHER ->
            LET a == Lock(mu, Me(t)) IN
            /\ mu' = a.mu
            /\ stack' = [stack EXCEPT ![t] = SetSt(@, a.st)]
            /\ rejected' = rejected
  /\ UNCHANGED <<phase, hook, nstarted, engine>>
  /\ UNCHANGED otherThanLock

\* a writer waiting for the writer mutex gets it
LockAcquire(t) ==
  /\ stack[t] # <<>> /\ Top(t).st = "waitW"
  /\ mu.w = NoHolder
  /\ LET a == Lock(mu, Me(t)) IN
     /\ mu' = a.mu
     /\ stack' = [stack EXCEPT ![t] = SetSt(@, a.st)]
  /\ UNCHANGED <<phase, hook, nstarted, engine, rejected>>
  /\ UNCHANGED otherThanLock

\* the last active reader has left: the pending writer proceeds
LockProceed(t) ==
  /\ stack[t] # <<>> /\ Top(t).st = "pendW"
  /\ mu.w = Me(t) /\ mu.r = {}
  /\ stack' = [stack EXCEPT ![t] = SetSt(@, "engine")]
  /\ UNCHANGED <<phase, hook, nstarted, engine, mu, rejected>>
  /\ UNCHANGED otherThanLock

\* ------------------------------------------------------------------ returning
\* RUnlock / Unlock.  Unlock releases every reader blocked behind the writer.
Wake(s) == IF s # <<>> /\ s[Len(s)].st = "blockedR" THEN SetSt(s, "engine") ELSE s
Blocked == {fd \in Frames : fd[2] = Len(stack[fd[1]]) /\ F(fd).st = "blockedR"}

\* The call on top of t's stack returns (deferred unlock included).  A handle that
\* is no AccessModer fails in newExecCtx.
Return(t, ok) ==
  /\ stack[t] # <<>> /\ Top(t).st = "engine"
  /\ Top(t).mode = NoAccessModer => ~ok
  /\ rejected' = [rejected EXCEPT ![t] = Top(t).mode = NoAccessModer]
  /\ IF ~handleLocks(Top(t).h) \/ ~deferUnlock(ok)
       THEN /\ stack' = [stack EXCEPT ![t] = Pop(@)]
            /\ mu' = mu
       ELSE IF mu.w = Me(t)
         THEN /\ mu' = [w |-> NoHolder, r |-> mu.r \cup Blocked]
              /\ stack' = [u \in Threads |-> IF u = t THEN Pop(stack[u]) ELSE Wake(stack[u])]
         ELSE /\ mu' = [mu EXCEPT !.r = @ \ {Me(t)}]
              /\ stack' = [stack EXCEPT ![t] = Pop(@)]
  /\ UNCHANGED <<phase, hook, nstarted, engine>>
  /\ UNCHANGED otherThanLock

Next ==
  \/ \E e \in Exts : OnStart(e)
  \/ \E ok \in BOOLEAN : OnStartReturn(ok)
  \/ NewInterpreterReturn
  \/ \E t \in Threads, db \in DBs : Call(t, db)
  \/ \E t \in Threads, db \in DBs : Execute(t, db)
  \/ \E t \in Threads, db \in DBs : RecursiveCall(t, db)
  \/ \E t \in Threads, db \in DBs : RecursiveExecute(t, db)
  \/ \E t \in Threads, e \in Exts, db \in DBs : StartHandleCall(t, e, db)
  \/ \E t \in Threads : LockStep(t)
  \/ \E t \in Threads : LockAcquire(t)
  \/ \E t \in Threads : LockProceed(t)
  \/ \E t \in Threads, ok \in BOOLEAN : Return(t, ok)

Spec == Init /\ [][Next]_vars

\* ================================================================== claims under Spec
Waiting(fd) == F(fd).st \in {"blockedR", "waitW", "pendW"}
Holds(fd)   == fd \in mu.r \/ mu.w = fd
TopLevel(fd) == F(fd).h = ThreadSafe

\* C1: a call made through the locking handle with a database handle that is not
\* ReadOnly is never inside the engine together with any other call made through the
\* locking handle; while it is inside it holds the writer mutex and no reader is active.
C1_WriterExclusive ==
  \A f1 \in Frames :
    (TopLevel(f1) /\ Inside(f1) /\ F(f1).mode # ReadOnly) =>
      /\ mu.w = f1 /\ mu.r = {}
      /\ \A f2 \in Frames : (f2 # f1 /\ TopLevel(f2)) => ~Inside(f2)

\* a writer is inside the engine while a call of another goroutine waits for the lock
C1_Witness ==
  \E f1, f2 \in Frames :
    /\ f1[1] # f2[1]
    /\ TopLevel(f1) /\ Inside(f1) /\ F(f1).mode = ReadWrite
    /\ TopLevel(f2) /\ Waiting(f2)

\* C2: while every call made through the locking handle is ReadOnly, none of them
\* waits for the lock: each is inside the engine or enters it with its next step
\* (so two of them can be inside together, see the witness).
AllReadOnly == \A fd \in Frames : TopLevel(fd) => F(fd).mode = ReadOnly

C2_ReadersNeverWait ==
  AllReadOnly =>
    \A fd \in Frames :
      TopLevel(fd) =>
        /\ ~Waiting(fd)
        /\ F(fd).st = "lock" => RLock(mu, fd).st = "engine"
        /\ Inside(fd) => fd \in mu.r /\ mu.w = NoHolder

\* two ReadOnly calls of different goroutines are inside the engine together
C2_Witness ==
  \E f1, f2 \in Frames :
    /\ f1[1] # f2[1]
    /\ TopLevel(f1) /\ F(f1).mode = ReadOnly /\ Inside(f1)
    /\ TopLevel(f2) /\ F(f2).mode = ReadOnly /\ Inside(f2)

\* C3: a Call or Execute made through the recursive handle never goes through lock():
\* it is inside the engine from the start, never waits for, and never holds, the
\* mutex, and its return is always possible, also under a held writer lock.
C3_RecursiveNeverLocks ==
  /\ \A fd \in Frames :
       F(fd).h = Recursive => /\ F(fd).st = "engine"
                              /\ ~Holds(fd)
  /\ \A t \in Threads :
       (stack[t] # <<>> /\ Top(t).h = Recursive) => ENABLED Return(t, FALSE)

\* a recursive call is running inside a call that holds the exclusive lock
C3_Witness ==
  \E t \in Threads :
    /\ Depth(t) >= 2 /\ Top(t).h = Recursive
    /\ mu.w = <<t, 1>> /\ stack[t][1].st = "engine"

C6_NoModeNoLock ==
  /\ [](\A fd \in Frames :
          (TopLevel(fd) /\ F(fd).mode = NoAccessModer) => F(fd).st = "lock" /\ ~Holds(fd))
  /\ [][\A t \in Threads :
          (/\ stack[t] # <<>>
           /\ Top(t).h = ThreadSafe /\ Top(t).mode = NoAccessModer
           /\ stack'[t] # stack[t])
          => /\ mu' = mu
             /\ stack'[t] = Pop(stack[t])
             /\ rejected'[t]]_vars

\* such a call has returned its error while another goroutine holds the writer lock
C6_Witness ==
  \E t \in Callers :
    /\ stack[t] = <<>> /\ rejected[t]
    /\ mu.w # NoHolder /\ mu.w[1] # t

\* C24: for every call made through the locking handle that is inside the engine,
\* canMutateState is true exactly when the handle's access mode is ReadWrite; a call
\* with canMutateState true holds the writer mutex with no reader active, and a call
\* that holds the lock as a reader has canMutateState false.
C24_MutateOnlyExclusive ==
  \A fd \in Frames :
    (TopLevel(fd) /\ Inside(fd)) =>
      /\ canMutateState(F(fd).mode) <=> F(fd).mode = ReadWrite
      /\ canMutateState(F(fd).mode) => (mu.w = fd /\ mu.r = {})
      /\ fd \in mu.r => ~canMutateState(F(fd).mode)

\* a ReadWrite call is inside the engine, able to mutate, while a ReadOnly call of
\* another goroutine is blocked behind it
C24_Witness ==
  \E f1, f2 \in Frames :
    /\ f1[1] # f2[1]
    /\ TopLevel(f1) /\ Inside(f1) /\ canMutateState(F(f1).mode) /\ mu.w = f1
    /\ TopLevel(f2) /\ F(f2).mode = ReadOnly /\ F(f2).st = "blockedR"

\* the calls that hold the lock: readers inside the engine, and the one writer that
\* is inside or waiting for the readers to leave
ReadersInside == {fd \in Frames : TopLevel(fd) /\ F(fd).mode = ReadOnly /\ Inside(fd)}
WritersIn ==
  {fd \in Frames : TopLevel(fd) /\ F(fd).mode = ReadWrite /\ F(fd).st \in {"engine", "pendW"}}

\* C25: the lock is held by exactly the calls through the locking handle that have
\* acquired it and not yet returned, each in the mode it acquired it in; a call
\* that returns, with a result or with an error, leaves the lock held by exactly
\* the other holders (and the readers its Unlock lets in); when no call is in
\* progress the lock has no holder.
C25_LockReleased ==
  /\ [](/\ mu.r = ReadersInside
        /\ (IF mu.w = NoHolder THEN WritersIn = {} ELSE WritersIn = {mu.w})
        /\ ((\A t \in Threads : stack[t] = <<>>) => mu = [w |-> NoHolder, r |-> {}]))
  /\ [][\A t \in Threads :
          (stack[t] # <<>> /\ stack'[t] = Pop(stack[t]) /\ Holds(Me(t))) =>
             /\ Me(t) \notin mu'.r /\ mu'.w # Me(t)
             /\ mu.r \ {Me(t)} \subseteq mu'.r
             /\ (mu.w # Me(t) => mu'.w = mu.w)]_vars

\* two ReadOnly calls hold the lock together while a ReadWrite call, holding the
\* writer mutex, waits for them to return
C25_Witness ==
  /\ Cardinality(mu.r) = 2
  /\ mu.w # NoHolder /\ F(mu.w).st = "pendW"

\* the call a start hook makes through the Engine it was given, when there is one
HookCall == <<Ctor, 1>>
InHookCall == phase = "starting" /\ hook # 0 /\ stack[Ctor] # <<>>

\* C32: while NewInterpreter runs its start hooks the lock has no holder other
\* than the calls of the running hook, so the call a hook makes through the Engine
\* it was given never waits in lock(): with a ReadOnly handle it is in the engine
\* as a reader, with a ReadWrite handle as the writer, and with a handle that has
\* no access mode lock() returns its error; from there the call can return.
C32_StartHookGetsLock ==
  /\ (phase = "starting" /\ stack[Ctor] = <<>>) => mu = [w |-> NoHolder, r |-> {}]
  /\ InHookCall =>
       /\ F(HookCall).h = ThreadSafe
       /\ F(HookCall).st \in {"lock", "engine"}
       /\ (Inside(HookCall) /\ F(HookCall).mode = ReadOnly) => HookCall \in mu.r
       /\ (Inside(HookCall) /\ F(HookCall).mode = ReadWrite) => mu.w = HookCall
       /\ (Depth(Ctor) = 1 /\ Inside(HookCall)) => ENABLED Return(Ctor, FALSE)
       /\ (Depth(Ctor) = 1 /\ ~Inside(HookCall)) => ENABLED LockStep(Ctor)

\* the second start hook, the first having returned, is inside a ReadWrite call
C32_Witness ==
  /\ InHookCall /\ hook = 2 /\ nstarted = 1
  /\ Depth(Ctor) = 1
  /\ F(HookCall).mode = ReadWrite /\ Inside(HookCall) /\ mu.w = HookCall

\* ================================================================== SpecLog
\* The log buffers of one call tree: the outermost call (made through the locking
\* handle, toplevel = true) and the calls nested in it through the recursive handle.

\* newExecCtx: logs := make([]string, 0)
newLogs == <<>>

\* The buffer recursiveInterpreter.logs points to, for a handle used by the call at
\* depth d: the log buffer of that call.
recursiveLogs(d) == d

\* recursiveInterpreter.Call on success: *r.logs = append(*r.logs, res.Logs...)
appendLogsDropped(buf, resLogs) == buf

appendLogs(buf, resLogs) == buf \o resLogs

\* Does the recursive handle append the returning call's lines to *r.logs?
\* recursiveInterpreter.Call: only past "if err != nil { return nil, err }";
\* recursiveInterpreter.Execute: return r.i.execute(...), never.
recursiveAppendsOnError(op, ok) == op = "Call"

recursiveAppends(op, ok) == op = "Call" /\ ok

\* baseInterpreter.call on success: &common.CallResult{Logs: *execCtx.logs}
callResult(f) == f.logs

LFrame(op) == [op |-> op, start |-> lseq, logs |-> newLogs]

InitLog ==
  /\ IdleExec
  /\ IdleNew
  /\ IdleLock
  /\ IdleLog
  /\ IdleCall

\* ThreadSafeInterpreter.Call -> baseInterpreter.call(..., true) begins
LogCall ==
  /\ lstack = <<>>
  /\ lstack' = <<LFrame("Call")>>
  /\ lseq' = 0 /\ lwho' = <<>> /\ lexpect' = {} /\ lres' = NoResult /\ lret' = NoReturn
  /\ UNCHANGED otherThanLog

\* ThreadSafeInterpreter.Execute -> baseInterpreter.execute(..., true) begins
LogExecute ==
  /\ lstack = <<>>
  /\ lstack' = <<LFrame("Execute")>>
  /\ lseq' = 0 /\ lwho' = <<>> /\ lexpect' = {} /\ lres' = NoResult /\ lret' = NoReturn
  /\ UNCHANGED otherThanLog

\* recursiveInterpreter.Call -> baseInterpreter.call(..., false) begins
LogRecursiveCall ==
  /\ lstack # <<>> /\ Len(lstack) < MaxDepth
  /\ lstack' = Append(lstack, LFrame("Call"))
  /\ UNCHANGED <<lseq, lwho, lexpect, lres, lret>>
  /\ UNCHANGED otherThanLog

\* recursiveInterpreter.Execute -> baseInterpreter.execute(..., false) begins
LogRecursiveExecute ==
  /\ lstack # <<>> /\ Len(lstack) < MaxDepth
  /\ lstack' = Append(lstack, LFrame("Execute"))
  /\ UNCHANGED <<lseq, lwho, lexpect, lres, lret>>
  /\ UNCHANGED otherThanLog

\* the built-in notice is evaluated in the current call:
\* *e.logs = append(*e.logs, args[0].RawValue().(string))
Notice ==
  /\ lstack # <<>> /\ lseq < MaxLines
  /\ lseq' = lseq + 1
  /\ lwho' = Append(lwho, Len(lstack))
  /\ lstack' = [lstack EXCEPT ![Len(lstack)].logs = Append(@, lseq + 1)]
  /\ lexpect' = lexpect \cup {lseq + 1}
  /\ UNCHANGED <<lres, lret>>
  /\ UNCHANGED otherThanLog

\* the current call returns, with a result (ok) or an error
LogReturn(ok) ==
  /\ lstack # <<>>
  /\ LET d == Len(lstack)
         f == lstack[d]
         delivered == f.op = "Call" /\ ok
     IN
     IF d = 1
       THEN /\ lstack' = <<>>
            /\ lres' = [op |-> f.op,
                        err |-> IF ok THEN None ELSE "err",
                        nil |-> ~delivered,
                        logs |-> IF delivered THEN callResult(f) ELSE <<>>]
            /\ lexpect' = IF delivered THEN lexpect ELSE {}
            /\ lret' = lret
       ELSE /\ lstack' = IF recursiveAppends(f.op, ok)
                 THEN [Pop(lstack) EXCEPT ![recursiveLogs(d - 1)].logs = appendLogs(@, callResult(f))]
                 ELSE Pop(lstack)
            /\ lres' = lres
            /\ lret' = [op |-> f.op, ok |-> ok, lines |-> f.logs,
                        before |-> lstack[recursiveLogs(d - 1)].logs,
                        after |-> lstack'[recursiveLogs(d - 1)].logs]
            /\ lexpect' = IF delivered THEN lexpect ELSE {n \in lexpect : n <= f.start}
  /\ UNCHANGED <<lseq, lwho>>
  /\ UNCHANGED otherThanLog

NextLog ==
  \/ LogCall
  \/ LogExecute
  \/ LogRecursiveCall
  \/ LogRecursiveExecute
  \/ Notice
  \/ \E ok \in BOOLEAN : LogReturn(ok)

SpecLog == InitLog /\ [][NextLog]_vars

\* ------------------------------------------------------------------ claims under SpecLog
Increasing(q) == \A i, j \in 1..Len(q) : i < j => q[i] < q[j]
Range(q) == {q[i] : i \in 1..Len(q)}

\* C4: the CallResult.Logs of a successful outermost Call consist of exactly the lines
\* logged by the outer call and by the recursive Calls that returned successfully
\* inside it, in the order in which they were logged.
C4_NestedLogsInOrder ==
  (lres.op = "Call" /\ lres.err = None) =>
    /\ ~lres.nil
    /\ Range(lres.logs) = lexpect
    /\ Increasing(lres.logs)

\* the outer call logged line 1, a recursive Call logged line 2 and returned, the
\* outer call logged line 3 and returned <<1, 2, 3>>
C4_Witness ==
  /\ lres.op = "Call" /\ lres.err = None
  /\ lres.logs = <<1, 2, 3>>
  /\ lwho = <<1, 2, 1>>

\* C28 (as stated): the lines logged during an Execute made through the recursive
\* handle that returned without error are appended to the log buffer of the call
\* that invoked it, as they are for a Call made through the recursive handle.
C28_RecursiveExecuteLogsShared ==
  (lret.op = "Execute" /\ lret.ok) => lret.after = lret.before \o lret.lines

\* C29: a call that returns an error returns no CallResult and delivers no line to
\* its caller; a Call through the recursive handle that fails leaves the log buffer
\* of the call that invoked it unchanged.
C29_FailedCallDeliversNothing ==
  /\ lres.err # None => (lres.nil /\ lres.logs = <<>>)
  /\ (lret.op = "Call" /\ ~lret.ok) => lret.after = lret.before

\* a recursive Call logged a line after the outer call had logged one, and failed
C29_Witness ==
  /\ lret.op = "Call" /\ ~lret.ok
  /\ lret.lines # <<>> /\ lret.before # <<>>

\* ================================================================== SpecCall
\* baseInterpreter.call over a catalog loaded from persisted state.

executableTypeFunction   == "function"
executableTypeAction     == "action"
executableTypePrecompile == "precompile"

namespaceTypeUser      == "USER"
namespaceTypeSystem    == "SYSTEM"
namespaceTypeExtension == "EXTENSION"

\* ---- host values and Values
\* a host value is its Go type and its value; NewValue rejects the types it does not know
Hello       == [go |-> "string", v |-> "hello"]
Five        == [go |-> "int64", v |-> "5"]
Unsupported == [go |-> "chan", v |-> ""]
HostValues == {Hello, Five, Unsupported}
NewValueFails(h) == h.go \notin {"string", "int64"}
NewValue(h) == [type |-> IF h.go = "string" THEN "text" ELSE "int", raw |-> h.v]

\* ---- built-in scalar functions
\* the scalar functions of engine.Functions: notice(text) and abs(int)
BuiltinNames == {Name("notice", 0), Name("abs", 0)}

\* funcDef.ValidateArgsFunc(argTypes) succeeds
ValidateArgs(funcName, argVals) ==
  /\ Len(argVals) = 1
  /\ argVals[1].type = (IF funcName.low = "notice" THEN "text" ELSE "int")

\* What the Func of funcDefToExecutable(funcName, ...) does with argVals when its
\* database query yields q rows: the error it returns, the lines it appends to
\* *e.logs, the queries it runs and the rows it hands to its result function.
\* columns is the columns field of the row handed to the result function.
funcDefToExecutableAnyRows(funcName, argVals, q) ==
  IF ~ValidateArgs(funcName, argVals)
    THEN [err |-> "validateArgs", logs |-> <<>>, queries |-> 0, rows |-> 0, columns |-> <<>>]
  ELSE IF funcName.low = "notice"
    THEN [err |-> None, logs |-> <<argVals[1].raw>>, queries |-> 0, rows |-> 0,
          columns |-> <<>>]
  ELSE [err |-> None, logs |-> <<>>, queries |-> 1, rows |-> 1, columns |-> <<funcName>>]

funcDefToExecutableNoSpecialCase(funcName, argVals, q) ==
  IF ~ValidateArgs(funcName, argVals)
    THEN [err |-> "validateArgs", logs |-> <<>>, queries |-> 0, rows |-> 0, columns |-> <<>>]
  ELSE IF q # 1
    THEN [err |-> "expected1Row", logs |-> <<>>, queries |-> 1, rows |-> 0, columns |-> <<>>]
  ELSE [err |-> None, logs |-> <<>>, queries |-> 1, rows |-> 1, columns |-> <<funcName>>]

funcDefToExecutable(funcName, argVals, q) ==
  IF ~ValidateArgs(funcName, argVals)
    THEN [err |-> "validateArgs", logs |-> <<>>, queries |-> 0, rows |-> 0, columns |-> <<>>]
  ELSE IF funcName.low = "notice"
    THEN [err |-> None, logs |-> <<argVals[1].raw>>, queries |-> 0, rows |-> 0,
          columns |-> <<>>]
  ELSE IF q # 1
    THEN [err |-> "expected1Row", logs |-> <<>>, queries |-> 1, rows |-> 0, columns |-> <<>>]
  ELSE [err |-> None, logs |-> <<>>, queries |-> 1, rows |-> 1, columns |-> <<funcName>>]

builtInExecutables ==
  [k \in BuiltinNames |-> [Name |-> k, Type |-> executableTypeFunction]]

copyBuiltinExecutables == [k \in DOMAIN builtInExecutables |-> builtInExecutables[k]]

\* ---- loading a persisted namespace (NewInterpreter, the loop over namespaces)
makeActionToExecutable(nsName, action) == [Name |-> action, Type |-> executableTypeAction]

\* namespaceFunctions := copyBuiltinExecutables(), then every action overrides
namespaceFunctionsBuiltinWins(nsName, actions) ==
  LET execs == {makeActionToExecutable(nsName, a) : a \in actions}
      b == copyBuiltinExecutables
  IN [k \in DOMAIN b \cup {e.Name : e \in execs} |->
        IF k \in DOMAIN b THEN b[k] ELSE CHOOSE e \in execs : e.Name = k]

namespaceFunctions(nsName, actions) ==
  LET execs == {makeActionToExecutable(nsName, a) : a \in actions}
      b == copyBuiltinExecutables
  IN [k \in DOMAIN b \cup {e.Name : e \in execs} |->
        IF \E e \in execs : e.Name = k THEN CHOOSE e \in execs : e.Name = k ELSE b[k]]

\* listTablesInNamespace(ctx, db, ns.Name): the names of the namespace's tables
listTablesInNamespace(nsName) == IF nsName.low = "app" THEN {"users"} ELSE {}

loadNamespace(ns) ==
  [availableFunctions |-> namespaceFunctions(ns.Name, ns.actions),
   tables |-> listTablesInNamespace(ns.Name),
   namespaceType |-> ns.Type]

\* the namespace initializeExtension returns for an extension with the methods
\* meth and act and a table of its own
extensionNamespace ==
  [availableFunctions |->
     [k \in {Name("meth", 0), Name("act", 0)} |->
        [Name |-> k, Type |-> executableTypePrecompile]],
   tables |-> {"ext_kv"},
   namespaceType |-> namespaceTypeExtension]

\* ---- the persisted states the catalog is loaded from
Persisted(name, type, actions) == [Name |-> name, Type |-> type, actions |-> actions]
MainStates ==
  {Persisted(DefaultNamespace, namespaceTypeSystem, A) :
     A \in SUBSET {Name("act", 0), Name("notice", 0)}}
AppStates ==
  {Persisted(Name("app", 0), t, {Name("act", 0)}) :
     t \in {namespaceTypeUser, namespaceTypeExtension}}
ExtAlias == Name("ext", 0)

Catalog(P, withExt) ==
  [k \in {p.Name : p \in P} \cup (IF withExt THEN {ExtAlias} ELSE {}) |->
     IF \E p \in P : p.Name = k
       THEN loadNamespace(CHOOSE p \in P : p.Name = k)
       ELSE extensionNamespace]

Catalogs ==
  {Catalog(M \cup A, x) :
     M \in {{}} \cup {{m} : m \in MainStates},
     A \in {{}} \cup {{a} : a \in AppStates},
     x \in BOOLEAN}

\* ---- what an Action or Precompile executable does when invoked
Behaviours ==
  {[fail |-> FALSE, logs |-> <<>>,    queries |-> 0, rows |-> 0, q |-> 1],
   [fail |-> FALSE, logs |-> <<"x">>, queries |-> 1, rows |-> 1, q |-> 1],
   [fail |-> TRUE,  logs |-> <<"x">>, queries |-> 1, rows |-> 1, q |-> 0]}

\* ---- baseInterpreter.call
Fail(err) == [NoOut EXCEPT !.done = TRUE, !.err = err]

\* ns, ok := i.namespaces[namespace]; exec, ok := ns.availableFunctions[action]
resolveActionFirst(nss, namespace, action) ==
  IF \A k \in DOMAIN nss : action \notin DOMAIN nss[k].availableFunctions
    THEN [err |-> "ErrUnknownAction", exec |-> NoExec]
  ELSE IF namespace \notin DOMAIN nss
    THEN [err |-> "namespaceDoesNotExist", exec |-> NoExec]
  ELSE IF action \notin DOMAIN nss[namespace].availableFunctions
    THEN [err |-> "ErrUnknownAction", exec |-> NoExec]
  ELSE [err |-> None, exec |-> nss[namespace].availableFunctions[action]]

resolve(nss, namespace, action) ==
  IF namespace \notin DOMAIN nss
    THEN [err |-> "namespaceDoesNotExist", exec |-> NoExec]
  ELSE IF action \notin DOMAIN nss[namespace].availableFunctions
    THEN [err |-> "ErrUnknownAction", exec |-> NoExec]
  ELSE [err |-> None, exec |-> nss[namespace].availableFunctions[action]]

\* switch exec.Type
execTypeCheckAllowsAll(type) == None

execTypeCheckAsUnknown(type) ==
  IF type = executableTypeFunction THEN "ErrUnknownAction"
  ELSE IF type \in {executableTypeAction, executableTypePrecompile} THEN None
  ELSE "nodeBugUnknownExecutableType"

execTypeCheck(type) ==
  IF type = executableTypeFunction THEN "cannotBeCalledDirectly"
  ELSE IF type \in {executableTypeAction, executableTypePrecompile} THEN None
  ELSE "nodeBugUnknownExecutableType"

\* the arguments NewValue was applied to before the loop ended
Converted(args) ==
  IF \E i \in 1..Len(args) : NewValueFails(args[i])
    THEN CHOOSE i \in 1..Len(args) :
           NewValueFails(args[i]) /\ \A j \in 1..(i - 1) : ~NewValueFails(args[j])
    ELSE Len(args)

call(nss, namespace0, action0, args, db, b) ==
  LET namespace == ToLower(IF namespace0 = EmptyName THEN DefaultNamespace ELSE namespace0)
      action    == ToLower(action0)
      r         == resolve(nss, namespace, action)
  IN
  IF db = NoAccessModer THEN Fail("noAccessModer")          \* newExecCtx
  ELSE IF r.err # None THEN Fail(r.err)
  ELSE IF execTypeCheck(r.exec.Type) # None THEN Fail(execTypeCheck(r.exec.Type))
  ELSE IF \E i \in 1..Len(args) : NewValueFails(args[i])
    THEN [Fail("newValue") EXCEPT !.converted = Converted(args)]
  ELSE
    LET argVals == [i \in 1..Len(args) |-> NewValue(args[i])]
        e == IF r.exec.Type = executableTypeFunction
               THEN funcDefToExecutable(r.exec.Name, argVals, b.q)
               ELSE [err |-> IF b.fail THEN "exec" ELSE None, logs |-> b.logs,
                     queries |-> b.queries, rows |-> b.rows]
    IN [done |-> TRUE, err |-> e.err, ns |-> namespace, exec |-> r.exec, converted |-> Len(args),
        sinkCalls |-> e.rows, queries |-> e.queries,
        nil |-> e.err # None,
        logs |-> IF e.err # None THEN <<>> ELSE e.logs]

\* ---- the specification
NsLows  == {"main", "app", "ext"}
ActLows == {"act", "notice", "abs", "meth", "zzz"}
NamespaceArgs == {EmptyName} \cup {Name(l, m) : l \in NsLows, m \in 0..MaxMask}
ActionArgs    == {Name(l, m) : l \in ActLows, m \in 0..MaxMask}
ArgLists == {<<>>, <<Hello>>, <<Five>>, <<Unsupported>>, <<Hello, Unsupported>>}

Requests ==
  [namespace : NamespaceArgs, action : ActionArgs, args : ArgLists, db : DBs, b : Behaviours]

\* a catalog as loaded by NewInterpreter, and the arguments of one call
InitCall ==
  /\ IdleLock
  /\ IdleLog
  /\ IdleExec
  /\ IdleNew
  /\ namespaces \in Catalogs
  /\ req \in Requests
  /\ out = NoOut

\* i.call(ctx, db, namespace, action, args, resultFn, toplevel) runs
BaseCall ==
  /\ ~out.done
  /\ out' = call(namespaces, req.namespace, req.action, req.args, req.db, req.b)
  /\ UNCHANGED <<namespaces, req>>
  /\ UNCHANGED otherThanCall

NextCall == BaseCall

SpecCall == InitCall /\ [][NextCall]_vars

\* ------------------------------------------------------------------ claims under SpecCall
\* the keys the call looks up: the lower-case forms of its arguments
NsKey  == Name((IF req.namespace = EmptyName THEN DefaultNamespace ELSE req.namespace).low, 0)
ActKey == Name(req.action.low, 0)
HasMode == req.db # NoAccessModer      \* the handle honours the access-mode contract
NsExists == NsKey \in DOMAIN namespaces
ActExists == NsExists /\ ActKey \in DOMAIN namespaces[NsKey].availableFunctions
Bound == namespaces[NsKey].availableFunctions[ActKey]
NothingRun ==
  /\ out.exec = NoExec /\ out.sinkCalls = 0 /\ out.queries = 0 /\ out.nil

\* C7: a call (with a database handle that exposes its access mode) naming an
\* existing namespace and an action bound to a Function-typed executable fails with
\* "cannot be called directly", not with ErrUnknownAction, having converted no
\* argument and invoked neither the executable nor the row sink.
C7_FunctionNotCallable ==
  (out.done /\ HasMode /\ ActExists /\ Bound.Type = executableTypeFunction) =>
    /\ out.err = "cannotBeCalledDirectly"
    /\ out.err # "ErrUnknownAction"
    /\ out.converted = 0
    /\ NothingRun

\* a built-in was called by a capitalised name with arguments, one of them unconvertible
C7_Witness ==
  /\ out.done /\ HasMode /\ ActExists /\ Bound.Type = executableTypeFunction
  /\ req.action = Name("abs", 1)
  /\ req.args = <<Hello, Unsupported>>

\* C8: a call (with a database handle that exposes its access mode) fails with
\* "namespace does not exist" when the namespace is absent, whatever the action, and
\* with the distinct ErrUnknownAction when the namespace exists and binds nothing to
\* the lower-cased action; in both cases no executable and no row sink is invoked.
C8_NamespaceBeforeAction ==
  /\ (out.done /\ HasMode /\ ~NsExists) =>
        out.err = "namespaceDoesNotExist" /\ out.converted = 0 /\ NothingRun
  /\ (out.done /\ HasMode /\ NsExists /\ ~ActExists) =>
        out.err = "ErrUnknownAction" /\ out.converted = 0 /\ NothingRun

\* the namespace is absent and the action is unknown to every namespace of the catalog
C8_Witness ==
  /\ out.done /\ HasMode /\ ~NsExists
  /\ namespaces # <<>>
  /\ \A k \in DOMAIN namespaces : ActKey \notin DOMAIN namespaces[k].availableFunctions
  /\ out.err = "namespaceDoesNotExist"

\* the case of C9: call(ctx, db, "main", "notice", ["hello"], sink) where main exists
\* and notice is the built-in
NoticeCall ==
  /\ out.done /\ HasMode
  /\ req.namespace = DefaultNamespace /\ req.action = Name("notice", 0)
  /\ req.args = <<Hello>>
  /\ ActExists /\ Bound.Type = executableTypeFunction

\* C9 (as stated): the call succeeds with CallResult.Logs = ["hello"], no row and no query.
C9_Original ==
  NoticeCall =>
    /\ out.err = None /\ ~out.nil /\ out.logs = <<"hello">>
    /\ out.sinkCalls = 0 /\ out.queries = 0

\* C9 (amended): the call fails with "cannot be called directly" and returns no
\* CallResult; no row is emitted, no query is run and nothing is logged.
C9_NoticeNotCallable ==
  NoticeCall =>
    /\ out.err = "cannotBeCalledDirectly"
    /\ out.nil /\ out.logs = <<>>
    /\ out.sinkCalls = 0 /\ out.queries = 0 /\ out.exec = NoExec

C9_Witness ==
  /\ NoticeCall
  /\ out.err # None

\* C10: the outcome of a call (the error class, the executable invoked) is the same
\* for every other spelling of its namespace and action that differs only in case.
SameLetters(x, y) == x.low = y.low

C10_CaseInsensitive ==
  out.done =>
    \A n2 \in NamespaceArgs, a2 \in ActionArgs :
      (SameLetters(n2, req.namespace) /\ SameLetters(a2, req.action)) =>
        LET o2 == call(namespaces, n2, a2, req.args, req.db, req.b) IN
        /\ o2.err = out.err
        /\ o2.exec = out.exec /\ o2.ns = out.ns

\* a call spelt with capitals in both names reached the executable
C10_Witness ==
  /\ out.done /\ out.err = None
  /\ req.namespace.mask # 0 /\ req.action.mask # 0
  /\ out.exec # NoExec

\* ================================================================== SpecExec
\* baseInterpreter.execute: parse, bind the parameters, run the statements.

\* ---- strings: a parameter key is the sequence of its characters
Letters == {"X", "b", "x"}

\* the byte value of a character (Go compares strings byte by byte)
Byte(c) ==
  CASE c = " " -> 32 [] c = "$" -> 36 [] c = "1" -> 49 [] c = "X" -> 88
    [] c = "_" -> 95 [] c = "b" -> 98 [] c = "x" -> 120

\* strings.ToLower(param.Key)
ToLowerKey(s) == [i \in DOMAIN s |-> IF s[i] = "X" THEN "x" ELSE s[i]]
\* strings.HasPrefix
HasPrefix(s, p) == Len(s) >= Len(p) /\ SubSeq(s, 1, Len(p)) = p

\* a < b as Go strings
KeyLess(a, b) ==
  \E i \in 1..(Len(a) + 1) :
    /\ i <= Len(b)
    /\ \A j \in 1..(i - 1) : a[j] = b[j]
    /\ (i = Len(a) + 1 \/ Byte(a[i]) < Byte(b[i]))

\* validation.MAX_IDENT_NAME_LENGTH
MAX_IDENT_NAME_LENGTH == 32

\* identRegexp: ^[A-Za-z][A-Za-z0-9_]*$
identRegexp(s) ==
  /\ Len(s) >= 1
  /\ s[1] \in Letters
  /\ \A i \in 2..Len(s) : s[i] \in Letters \cup {"1", "_"}

\* isValidVarName(s): the error it returns, None for nil
isValidVarNameAcceptsAll(s) == None

isValidVarNameNoLength(s) ==
  IF ~HasPrefix(s, <<"$">>) THEN "mustStartWithSigil"
  ELSE IF ~identRegexp(Tail(s)) THEN "onlyLettersNumbersUnderscores"
  ELSE None

isValidVarName(s) ==
  IF ~HasPrefix(s, <<"$">>) THEN "mustStartWithSigil"
  ELSE IF ~identRegexp(Tail(s)) THEN "onlyLettersNumbersUnderscores"
  ELSE IF Len(Tail(s)) > MAX_IDENT_NAME_LENGTH THEN "tooLong"
  ELSE None

\* name := strings.ToLower(param.Key); if !strings.HasPrefix(name, "$") { name = "$" + name }
varName(key) ==
  LET name == ToLowerKey(key)
  IN IF HasPrefix(name, <<"$">>) THEN name ELSE <<"$">> \o name

\* ---- order.OrderMap(params): the entries of the map, collected in the map's
\* iteration order iter and then sorted ascending by key
RECURSIVE InsertKey(_, _)
InsertKey(q, k) ==
  IF q = <<>> THEN <<k>>
  ELSE IF KeyLess(k, Head(q)) THEN <<k>> \o q
  ELSE <<Head(q)>> \o InsertKey(Tail(q), k)

RECURSIVE OrderMap(_, _)
OrderMap(params, iter) ==
  IF iter = <<>> THEN <<>>
  ELSE InsertKey(OrderMap(params, SubSeq(iter, 1, Len(iter) - 1)), iter[Len(iter)])

\* for _, param := range order.OrderMap(params): the keys in the order they are bound
paramOrderMapRange(params, iter) == iter

paramOrder(params, iter) == OrderMap(params, iter)

\* the orders in which Go may iterate over a map with key set S
Iterations(S) ==
  {q \in [1..Cardinality(S) -> S] : \A i, j \in 1..Cardinality(S) : i # j => q[i] # q[j]}

\* ---- execCtx.setVariable(name, val): a new name is allocated; an existing one is
\* assigned, which fails when the types differ
setVariableFails(scope, name, val) ==
  name \in DOMAIN scope /\ scope[name].type # val.type
setVariable(scope, name, val) ==
  [k \in DOMAIN scope \cup {name} |-> IF k = name THEN val ELSE scope[k]]

\* ---- statements
\* The statement text is the sequence of its statements; "?" is text that does not
\* parse.  "ins" changes the database and yields no row, "sel" yields one row
\* holding the database state and the value of $x, "bad" yields a row and fails.
StmtKinds == {"ins", "sel", "bad"}
VarX == <<"$", "x">>

\* parse.Parse(statement)
Parse(statement) ==
  IF \E i \in 1..Len(statement) : statement[i] = "?"
    THEN [err |-> "syntax", ast |-> <<>>]
    ELSE [err |-> None, ast |-> statement]

\* the checks on the result of parse.Parse
parseCheckIgnored(p) == None

parseCheck(p) ==
  IF p.err # None THEN "ErrParse"
  ELSE IF Len(p.ast) = 0 THEN "noValidStatements"
  ELSE None

\* stmt.Accept(&interpPlanner).(stmtFunc)(execCtx, sink): the error, the rows handed
\* to the sink and the database state it leaves
stmtFunc(stmt, scope, db) ==
  IF stmt = "ins" THEN [err |-> None, rows |-> <<>>, db |-> db + 1]
  ELSE IF stmt = "sel" THEN
    IF VarX \in DOMAIN scope
      THEN [err |-> None, rows |-> <<[db |-> db, x |-> scope[VarX].raw]>>, db |-> db]
      ELSE [err |-> "ErrUnknownVariable", rows |-> <<>>, db |-> db]
  ELSE [err |-> "stmt", rows |-> <<[db |-> db, x |-> "bad"]>>, db |-> db]

\* if err != nil { return err } inside the statement loop
abortNever(err) == FALSE

abortOnError(err) == err # None

\* ---- the calls of the specification
\* the keys "x", "$x", "X", "b1" and "b x"
ParamKeys == {<<"x">>, <<"$", "x">>, <<"X">>, <<"b", "1">>, <<"b", " ", "x">>}

RECURSIVE SeqsUpTo(_, _)
SeqsUpTo(S, n) ==
  IF n = 0 THEN {<<>>}
  ELSE LET shorter == SeqsUpTo(S, n - 1)
       IN shorter \cup {Append(q, s) : q \in {p \in shorter : Len(p) = n - 1}, s \in S}

ExecRequests ==
  [statement : SeqsUpTo(StmtKinds, MaxStmts) \cup {<<"?">>, <<"ins", "?">>},
   params : UNION {[S -> HostValues] :
                     S \in {T \in SUBSET ParamKeys : Cardinality(T) <= MaxParams}},
   db : DBs]

InitExec ==
  /\ IdleLock
  /\ IdleLog
  /\ IdleCall
  /\ IdleNew
  /\ ereq \in ExecRequests
  /\ ex = NewRun(1)
  /\ efirst = NoOutcome

Finish(err) == [ex EXCEPT !.pc = "done", !.err = err]

\* ast, err := parse.Parse(statement), and the two checks on it
ExecuteParse ==
  /\ ex.pc = "parse"
  /\ LET p == Parse(ereq.statement)
     IN ex' = IF parseCheck(p) # None THEN Finish(parseCheck(p))
              ELSE [ex EXCEPT !.pc = "ctx", !.ast = p.ast]
  /\ UNCHANGED <<ereq, efirst>>
  /\ UNCHANGED otherThanExec

\* execCtx, err := i.newExecCtx(...); the range over order.OrderMap(params) begins
ExecuteNewCtx(iter) ==
  /\ ex.pc = "ctx"
  /\ iter \in Iterations(DOMAIN ereq.params)
  /\ ex' = IF ereq.db = NoAccessModer THEN Finish("noAccessModer")
           ELSE LET todo == paramOrder(ereq.params, iter)
                IN [ex EXCEPT !.pc = IF todo = <<>> THEN "run" ELSE "bind", !.todo = todo]
  /\ UNCHANGED <<ereq, efirst>>
  /\ UNCHANGED otherThanExec

\* one iteration of the parameter loop
ExecuteBind ==
  /\ ex.pc = "bind"
  /\ LET key  == Head(ex.todo)
         host == ereq.params[key]
         name == varName(key)
     IN ex' =
          IF NewValueFails(host) THEN Finish("newValue")
          ELSE IF isValidVarName(name) # None THEN Finish(isValidVarName(name))
          ELSE IF setVariableFails(ex.scope, name, NewValue(host)) THEN Finish("setVariable")
          ELSE [ex EXCEPT !.todo = Tail(@),
                          !.keys = Append(@, key),
                          !.bound = Append(@, name),
                          !.scope = setVariable(@, name, NewValue(host)),
                          !.pc = IF Tail(ex.todo) = <<>> THEN "run" ELSE "bind"]
  /\ UNCHANGED <<ereq, efirst>>
  /\ UNCHANGED otherThanExec

\* one iteration of the statement loop; after the last statement execute returns nil
ExecuteStmt ==
  /\ ex.pc = "run"
  /\ LET n == ex.next
         r == stmtFunc(ex.ast[n], ex.scope, ex.db)
         e == IF abortOnError(r.err) THEN r.err ELSE None
     IN ex' = [ex EXCEPT !.ran = Append(@, n),
                         !.rows = @ \o r.rows,
                         !.db = r.db,
                         !.next = n + 1,
                         !.err = e,
                         !.pc = IF e # None \/ n = Len(ex.ast) THEN "done" ELSE "run"]
  /\ UNCHANGED <<ereq, efirst>>
  /\ UNCHANGED otherThanExec

\* The same call is made a second time, from the same database state.
ExecuteAgain ==
  /\ ex.pc = "done" /\ ex.run = 1
  /\ efirst' = Outcome(ex)
  /\ ex' = NewRun(2)
  /\ UNCHANGED ereq
  /\ UNCHANGED otherThanExec

NextExec ==
  \/ ExecuteParse
  \/ \E iter \in Iterations(DOMAIN ereq.params) : ExecuteNewCtx(iter)
  \/ ExecuteBind
  \/ ExecuteStmt
  \/ ExecuteAgain

SpecExec == InitExec /\ [][NextExec]_vars

\* ---- execute with one parameter whose key is any string over the alphabet, or a
\* string of MAX_IDENT_NAME_LENGTH or one more letters, with or without sigil
InitVar ==
  /\ IdleLock
  /\ IdleLog
  /\ IdleCall
  /\ IdleNew
  /\ \E key \in SeqsUpTo({" ", "$", "1", "X", "_", "b", "x"}, MaxKeyLen)
                \cup {sigil \o [i \in 1..n |-> "x"] :
                        sigil \in {<<>>, <<"$">>},
                        n \in {MAX_IDENT_NAME_LENGTH, MAX_IDENT_NAME_LENGTH + 1}} :
       ereq = [statement |-> <<"sel">>, params |-> [k \in {key} |-> Five], db |-> ReadWrite]
  /\ ex = NewRun(1)
  /\ efirst = NoOutcome

SpecVar == InitVar /\ [][NextExec]_vars

\* ------------------------------------------------------------------ claims under SpecExec
\* the characters of a key after its sigil, if it has one
KeyBody(key) == IF key # <<>> /\ key[1] = "$" THEN Tail(key) ELSE key
\* a key that is no identifier, with or without sigil, in whatever capitalisation
Malformed(key) ==
  LET body == KeyBody(key)
  IN \/ body = <<>>
     \/ body[1] \notin Letters
     \/ \E i \in 2..Len(body) : body[i] \notin Letters \cup {"1", "_"}
HasMalformedKey == \E k \in DOMAIN ereq.params : Malformed(k)

\* C11: when some key of the parameter map normalizes to an invalid variable name,
\* execute never reaches its statement loop: no statement is run, the row sink is
\* never invoked, and the call ends with an error.
C11_BadNameNoStatement ==
  HasMalformedKey =>
    /\ ex.pc # "run"
    /\ ex.ran = <<>>
    /\ ex.rows = <<>>
    /\ (ex.pc = "done" => ex.err # None)

\* an execute whose text parses, whose map holds the key "b x" after a valid key,
\* ended by the name check after the valid key had been bound
C11_Witness ==
  /\ ex.pc = "done"
  /\ ereq.statement = <<"sel">>
  /\ DOMAIN ereq.params = {<<"X">>, <<"b", " ", "x">>}
  /\ ex.bound = <<VarX>>
  /\ ex.err = "onlyLettersNumbersUnderscores"
  /\ ex.ran = <<>> /\ ex.rows = <<>>

\* statement n of the parsed list fails in the scope the parameters left
StmtFails(n) == ex.ast[n] = "bad" \/ (ex.ast[n] = "sel" /\ VarX \notin DOMAIN ex.scope)
StmtError(n) == IF ex.ast[n] = "bad" THEN "stmt" ELSE "ErrUnknownVariable"
Count(S) == Cardinality(S)

\* C12: the statements run are a prefix 1, 2, ..., n of the parsed list, in that
\* order; none but the last of them failed; when the last one failed the call has
\* ended with that statement's error; a call that ended without error ran them all;
\* and the database effects and the rows of every statement that ran are all
\* there, those of the statements before a failing one included.
C12_AbortAtFirstFailure ==
  LET n == Len(ex.ran)
  IN /\ ex.ran = [i \in 1..n |-> i]
     /\ \A i \in 1..(n - 1) : ~StmtFails(i)
     /\ (n > 0 /\ StmtFails(n)) => (ex.pc = "done" /\ ex.err = StmtError(n))
     /\ (ex.pc = "done" /\ ex.err = None) => n = Len(ex.ast)
     /\ ex.db = Count({i \in 1..n : ex.ast[i] = "ins"})
     /\ Len(ex.rows) = Count({i \in 1..n : ex.ast[i] = "bad" \/
                                            (ex.ast[i] = "sel" /\ ~StmtFails(i))})

\* "ins; bad; ins" has ended: the first two ran, the third did not, the insert of
\* the first is kept and so is the row the failing statement had produced
C12_Witness ==
  /\ ex.pc = "done"
  /\ ex.ast = <<"ins", "bad", "ins">>
  /\ ex.ran = <<1, 2>>
  /\ ex.err = "stmt"
  /\ ex.db = 1
  /\ Len(ex.rows) = 1

Unparsable == \E i \in 1..Len(ereq.statement) : ereq.statement[i] = "?"

\* C13: once parsing is over, an execute whose text does not parse has ended with
\* ErrParse, and one whose text holds no statement has ended with an error; in both
\* cases no parameter has been bound, no statement run and no row handed to the sink.
C13_ParseFailureRunsNothing ==
  (ex.pc # "parse" /\ (Unparsable \/ ereq.statement = <<>>)) =>
    /\ ex.pc = "done"
    /\ ex.err = (IF Unparsable THEN "ErrParse" ELSE "noValidStatements")
    /\ ex.keys = <<>> /\ ex.bound = <<>> /\ ex.scope = <<>>
    /\ ex.ran = <<>> /\ ex.rows = <<>> /\ ex.db = 0

\* the text "ins; ?" with a bindable parameter on a read-write handle
C13_Witness ==
  /\ ex.pc = "done"
  /\ ereq.statement = <<"ins", "?">>
  /\ <<"x">> \in DOMAIN ereq.params /\ ereq.params[<<"x">>] = Five
  /\ ereq.db = ReadWrite
  /\ ex.err = "ErrParse"

\* C14: the keys of the parameter map are bound in ascending order, whatever order
\* the map is iterated in, and the second of two identical executes binds the same
\* names in the same order, runs the same statements in the same order, hands the
\* same rows to the sink in the same order and returns the same error as the first.
C14_SameCallSameOutcome ==
  /\ \A i \in 1..(Len(ex.keys) - 1) : KeyLess(ex.keys[i], ex.keys[i + 1])
  /\ \A i \in 1..(Len(ex.todo) - 1) : KeyLess(ex.todo[i], ex.todo[i + 1])
  /\ (ex.run = 2 /\ ex.pc = "done") => Outcome(ex) = efirst

\* the second execute of "ins; sel" with two parameters has ended like the first
C14_Witness ==
  /\ ex.run = 2 /\ ex.pc = "done"
  /\ ex.keys = <<<<"b", "1">>, <<"x">>>>
  /\ ex.ran = <<1, 2>>
  /\ ex.rows = <<[db |-> 1, x |-> "5"]>>
  /\ Outcome(ex) = efirst

\* ================================================================== SpecBuiltin
\* The Func of a built-in executable, evaluated for a statement of interpreted code:
\* the executionContext's log buffer holds req.logs, the database answers the
\* built-in's query with req.q rows or with an error, and the result function
\* returns nil or an error.
InitBuiltin ==
  /\ IdleLock
  /\ IdleLog
  /\ IdleExec
  /\ IdleNew
  /\ namespaces = <<>>
  /\ req \in [funcName : BuiltinNames,
               argVals : SeqsUpTo({NewValue(Hello), NewValue(Five)}, MaxParams),
               q : 0..MaxRows, queryFails : BOOLEAN, sinkFails : BOOLEAN,
               logs : SeqsUpTo({"hello", "old"}, MaxLines)]
  /\ out = NoOut

\* exec.Func(e, args, fn) runs
EvalBuiltin ==
  /\ ~out.done
  /\ LET e == funcDefToExecutable(req.funcName, req.argVals, req.q)
         r == IF e.queries = 1 /\ req.queryFails                 \* query returned err
                THEN [e EXCEPT !.err = "query", !.rows = 0, !.columns = <<>>]
              ELSE IF e.rows = 1 /\ req.sinkFails                \* return fn(&row{...})
                THEN [e EXCEPT !.err = "sink"]
              ELSE e
     IN out' = [done |-> TRUE, err |-> r.err, logs |-> req.logs \o r.logs,
                queries |-> r.queries, sinkCalls |-> r.rows, columns |-> r.columns]
  /\ UNCHANGED <<namespaces, req>>
  /\ UNCHANGED otherThanCall

SpecBuiltin == InitBuiltin /\ [][EvalBuiltin]_vars

\* ------------------------------------------------------------------ claims under SpecBuiltin
\* the built-in evaluated is a scalar function other than notice
ScalarEvaluated == out.done /\ req.funcName # Name("notice", 0)
OneRow == req.q = 1 /\ ~req.queryFails

\* C26: a scalar built-in other than notice hands its result function one row, of
\* one column, exactly when its arguments pass type validation and its query
\* produced exactly one row; when the query produces no row or several rows it
\* returns an error and hands over no row; when validation fails it returns an
\* error and runs no query.
C26_ExactlyOneRow ==
  ScalarEvaluated =>
    /\ out.sinkCalls \in {0, 1}
    /\ out.sinkCalls = 1 <=> (ValidateArgs(req.funcName, req.argVals) /\ OneRow)
    /\ out.sinkCalls = 1 => (Len(out.columns) = 1 /\ out.queries = 1)
    /\ (ValidateArgs(req.funcName, req.argVals) /\ req.q # 1) =>
          (out.err # None /\ out.sinkCalls = 0)
    /\ ~ValidateArgs(req.funcName, req.argVals) =>
          (out.err # None /\ out.queries = 0 /\ out.sinkCalls = 0)

\* abs(5) was evaluated, its query answered with several rows
C26_Witness ==
  /\ ScalarEvaluated
  /\ req.argVals = <<NewValue(Five)>>
  /\ req.q = MaxRows /\ ~req.queryFails
  /\ out.err = "expected1Row"

\* C27: notice, evaluated with arguments that pass type validation, appends its
\* string argument as one line at the end of the context's log buffer, leaving the
\* lines already there in place, hands no row to its result function and runs no
\* query.
C27_NoticeAppendsOneLine ==
  (out.done /\ req.funcName = Name("notice", 0) /\ ValidateArgs(req.funcName, req.argVals)) =>
    /\ out.err = None
    /\ out.logs = Append(req.logs, req.argVals[1].raw)
    /\ out.sinkCalls = 0 /\ out.queries = 0

\* notice('hello') was evaluated with two lines already in the buffer
C27_Witness ==
  /\ out.done /\ req.funcName = Name("notice", 0)
  /\ req.argVals = <<NewValue(Hello)>>
  /\ req.logs = <<"old", "hello">>
  /\ Len(out.logs) = 3

\* ================================================================== SpecNew
\* NewInterpreter, from the bootstrap query to its return.

\* precompiles.RegisteredPrecompiles(): the process-wide registry
systemExtensions == {"kv"}

\* sysExt, ok := systemExtensions[ext.ExtName]
knownExtensionAlways(extName) == TRUE

knownExtension(extName) == extName \in systemExtensions

\* switch count, after the schema-existence query: what NewInterpreter does next
bootstrapAcceptsMany(count, exists) ==
  IF count = 0 THEN "errNone"
  ELSE IF ~exists THEN "initSQL" ELSE "list"

bootstrap(count, exists) ==
  IF count = 0 THEN "errNone"
  ELSE IF count = 1 THEN (IF ~exists THEN "initSQL" ELSE "list")
  ELSE "errMany"

\* if existing, ok := interpreter.namespaces[ext.Alias]; ok { ... }: the namespace
\* registered under the alias, from the extension's own and the one found there
mergeExtensionWins(namespace, existing) ==
  [namespace EXCEPT
     !.availableFunctions =
        [f \in DOMAIN existing.availableFunctions \cup DOMAIN namespace.availableFunctions |->
           IF f \in DOMAIN namespace.availableFunctions
             THEN namespace.availableFunctions[f] ELSE existing.availableFunctions[f]],
     !.tables = existing.tables \cup namespace.tables]

mergeExisting(namespace, existing) ==
  [namespace EXCEPT
     !.availableFunctions =
        [f \in DOMAIN existing.availableFunctions \cup DOMAIN namespace.availableFunctions |->
           IF f \in DOMAIN existing.availableFunctions
             THEN existing.availableFunctions[f] ELSE namespace.availableFunctions[f]],
     !.tables = existing.tables]

\* The loop over instances (OnStart) stands after the loop over storedExts: the
\* number of records that loop has gone through before the first OnStart.
startAfterFirst(storedExts) == 1

startAfter(storedExts) == Len(storedExts)

\* b := make(map[string]*executable) in copyBuiltinExecutables: the map the copy is
\* written to and the persisted actions are then stored in
\* interpreter.accessController.registerNamespace(name): the names the access
\* controller knows after the call
registerNamespaceSkipped(registered, name) == registered

registerNamespace(registered, name) == registered \cup {name}

newMapShared(heap) == 1

newMap(heap) == Len(heap) + 1

\* ---- what NewInterpreter finds in the database
NewInputs ==
  [count : 0..MaxRows,
   exists : BOOLEAN,
   persisted : {M \cup A : M \in {{}} \cup {{m} : m \in MainStates},
                           A \in {{}} \cup {{a} : a \in AppStates}},
   storedExts : SeqsUpTo([ExtName : {"kv", "gone"},
                          Alias : {Name("app", 0), ExtAlias, Name("ext", 1)}],
                         MaxExts)]

InitNew ==
  /\ IdleLock
  /\ IdleLog
  /\ IdleCall
  /\ IdleExec
  /\ nin \in NewInputs
  /\ nw = [NewWork("bootstrap") EXCEPT !.heap = <<builtInExecutables>>]

\* return nil, err
Fatal(err) == [nw EXCEPT !.pc = "done", !.err = err]

\* the schema-existence query and the switch on its row count
Bootstrap(queryOk) ==
  /\ nw.pc = "bootstrap"
  /\ LET b == bootstrap(nin.count, nin.exists)
     IN nw' = IF ~queryOk THEN Fatal("query")
              ELSE IF b \in {"errNone", "errMany"} THEN Fatal(b)
              ELSE [nw EXCEPT !.pc = b]
  /\ UNCHANGED nin
  /\ UNCHANGED otherThanNew

\* err = initSQL(ctx, db)
InitSQL(ok) ==
  /\ nw.pc = "initSQL"
  /\ nw' = IF ok THEN [nw EXCEPT !.ddl = @ + 1, !.pc = "list"]
           ELSE [Fatal("initSQL") EXCEPT !.ddl = @ + 1]
  /\ UNCHANGED nin
  /\ UNCHANGED otherThanNew

\* namespaces, err := listNamespaces(ctx, db), in the order the database lists them
ListNamespaces(ok, order) ==
  /\ nw.pc = "list"
  /\ order \in Iterations(nin.persisted)
  /\ nw' = IF ~ok THEN Fatal("listNamespaces")
           ELSE [nw EXCEPT !.todo = order, !.pc = IF order = <<>> THEN "exts" ELSE "ns"]
  /\ UNCHANGED nin
  /\ UNCHANGED otherThanNew

\* one iteration of the loop over the persisted namespaces
LoadNamespace ==
  /\ nw.pc = "ns"
  /\ LET ns == Head(nw.todo)
         r == newMap(nw.heap)
         heap == [i \in 1..(IF r > Len(nw.heap) THEN r ELSE Len(nw.heap)) |->
                    IF i = r THEN loadNamespace(ns).availableFunctions ELSE nw.heap[i]]
         ref == [n \in DOMAIN nw.ref \cup {ns.Name} |-> IF n = ns.Name THEN r ELSE nw.ref[n]]
         cat == [n \in DOMAIN nw.namespaces \cup {ns.Name} |->
                   IF n = ns.Name THEN loadNamespace(ns) ELSE nw.namespaces[n]]
     IN nw' = [nw EXCEPT
                 !.heap = heap,
                 !.ref = ref,
                 !.namespaces = [n \in DOMAIN cat |->
                                   [cat[n] EXCEPT !.availableFunctions = heap[ref[n]]]],
                 !.registered = registerNamespace(@, ns.Name),
                 !.loaded = Append(@, ns.Name),
                 !.todo = Tail(@),
                 !.pc = IF Tail(nw.todo) = <<>> THEN "exts" ELSE "ns"]
  /\ UNCHANGED nin
  /\ UNCHANGED otherThanNew

\* one iteration of the loop over storedExts
LoadExtension(ok) ==
  /\ nw.pc = "exts"
  /\ nw.k <= startAfter(nin.storedExts) /\ nw.k <= Len(nin.storedExts)
  /\ LET ext == nin.storedExts[nw.k]
         namespace == IF ext.Alias \in DOMAIN nw.namespaces
                        THEN mergeExisting(extensionNamespace, nw.namespaces[ext.Alias])
                        ELSE extensionNamespace
         heap == Append(nw.heap, namespace.availableFunctions)
         ref == [n \in DOMAIN nw.ref \cup {ext.Alias} |->
                   IF n = ext.Alias THEN Len(heap) ELSE nw.ref[n]]
         cat == [n \in DOMAIN nw.namespaces \cup {ext.Alias} |->
                   IF n = ext.Alias THEN namespace ELSE nw.namespaces[n]]
     IN nw' = IF ~knownExtension(ext.ExtName) THEN Fatal("unknownExtension")
              ELSE IF ~ok THEN Fatal("initializeExtension")
              ELSE [nw EXCEPT
                      !.instances = Append(@, nw.k),
                      !.started = Append(@, 0),
                      !.heap = heap,
                      !.ref = ref,
                      !.namespaces = [n \in DOMAIN cat |->
                                        [cat[n] EXCEPT !.availableFunctions = heap[ref[n]]]],
                      !.registered = registerNamespace(@, ext.Alias),
                      !.k = @ + 1]
  /\ UNCHANGED nin
  /\ UNCHANGED otherThanNew

\* one iteration of the loop over instances: inst.OnStart(...)
StartInstance(ok) ==
  /\ nw.pc = "exts"
  /\ nw.k > startAfter(nin.storedExts)
  /\ nw.h <= Len(nw.instances)
  /\ nw' = IF ok THEN [nw EXCEPT !.started[nw.h] = @ + 1, !.h = @ + 1]
           ELSE [Fatal("onStart") EXCEPT !.started[nw.h] = @ + 1]
  /\ UNCHANGED nin
  /\ UNCHANGED otherThanNew

\* return threadSafe, nil
NewReturn ==
  /\ nw.pc = "exts"
  /\ nw.k > startAfter(nin.storedExts)
  /\ nw.h > Len(nw.instances)
  /\ nw' = [nw EXCEPT !.pc = "done"]
  /\ UNCHANGED nin
  /\ UNCHANGED otherThanNew

NextNew ==
  \/ \E queryOk \in BOOLEAN : Bootstrap(queryOk)
  \/ \E ok \in BOOLEAN : InitSQL(ok)
  \/ \E ok \in BOOLEAN, order \in Iterations(nin.persisted) : ListNamespaces(ok, order)
  \/ LoadNamespace
  \/ \E ok \in BOOLEAN : LoadExtension(ok)
  \/ \E ok \in BOOLEAN : StartInstance(ok)
  \/ NewReturn

SpecNew == InitNew /\ [][NextNew]_vars

\* ------------------------------------------------------------------ claims under SpecNew
Constructed == nw.pc = "done" /\ nw.err = None      \* NewInterpreter returned an interpreter
Failed      == nw.pc = "done" /\ nw.err # None      \* NewInterpreter returned nil and an error
Indexes(q)  == 1..Len(q)
HooksRun    == {h \in Indexes(nw.started) : nw.started[h] > 0}

\* C15: from the moment a persisted namespace is in the catalog, through the
\* extension loop and after construction, every action of it that bears the name of
\* a built-in function is what that name is bound to in the namespace's function
\* table: an Action-typed executable, which is also what a lookup of the name finds.
C15_ActionOverridesBuiltin ==
  \A p \in nin.persisted : \A a \in p.actions \cap BuiltinNames :
    p.Name \in DOMAIN nw.namespaces =>
      /\ nw.namespaces[p.Name].availableFunctions[a] = makeActionToExecutable(p.Name, a)
      /\ nw.namespaces[p.Name].availableFunctions[a].Type = executableTypeAction
      /\ resolve(nw.namespaces, p.Name, a).exec.Type = executableTypeAction

\* construction succeeded over a main namespace holding an action named notice,
\* while abs, which no action overrides, is still the built-in
C15_Witness ==
  /\ Constructed
  /\ \E p \in nin.persisted : p.Name = DefaultNamespace /\ p.actions = {Name("notice", 0)}
  /\ nw.namespaces[DefaultNamespace].availableFunctions[Name("notice", 0)].Type
       = executableTypeAction
  /\ nw.namespaces[DefaultNamespace].availableFunctions[Name("abs", 0)].Type
       = executableTypeFunction

\* C16: once the record of an extension whose alias names a persisted namespace has
\* been gone through, the namespace under the alias binds every name of the
\* persisted function table to the persisted executable and every other name to the
\* extension's, and its tables are exactly the persisted namespace's tables.
C16_PersistedWinsOverExtension ==
  \A i \in Indexes(nin.storedExts) : \A p \in nin.persisted :
    (i < nw.k /\ nin.storedExts[i].Alias = p.Name) =>
      LET now == nw.namespaces[p.Name]
          old == loadNamespace(p)
          own == extensionNamespace
      IN /\ DOMAIN now.availableFunctions
              = DOMAIN old.availableFunctions \cup DOMAIN own.availableFunctions
         /\ \A f \in DOMAIN now.availableFunctions :
              now.availableFunctions[f] =
                IF f \in DOMAIN old.availableFunctions
                  THEN old.availableFunctions[f] ELSE own.availableFunctions[f]
         /\ now.tables = old.tables

\* construction succeeded with an extension under the alias app, where a namespace
\* with the action act and the table users was persisted: act is the action, meth
\* the extension's method, and the extension's table is not there
C16_Witness ==
  /\ Constructed
  /\ \E i \in Indexes(nin.storedExts) : nin.storedExts[i].Alias = Name("app", 0)
  /\ \E p \in nin.persisted : p.Name = Name("app", 0)
  /\ nw.namespaces[Name("app", 0)].availableFunctions[Name("act", 0)].Type
       = executableTypeAction
  /\ nw.namespaces[Name("app", 0)].availableFunctions[Name("meth", 0)].Type
       = executableTypePrecompile
  /\ nw.namespaces[Name("app", 0)].tables = {"users"}

\* C17: a start hook has been invoked only when every extension record has been
\* resolved and its instance constructed; no hook is ever invoked twice; and when
\* construction succeeds there is one instance per record and the hook of each has
\* been invoked exactly once.
C17_StartAfterAllConstructed ==
  /\ HooksRun # {} =>
       (nw.k > Len(nin.storedExts) /\ Len(nw.instances) = Len(nin.storedExts))
  /\ \A h \in Indexes(nw.started) : nw.started[h] <= 1
  /\ Constructed =>
       /\ Len(nw.instances) = Len(nin.storedExts)
       /\ \A h \in Indexes(nw.instances) : nw.started[h] = 1

\* the first of two instances has been started, the second not yet
C17_Witness ==
  /\ nw.pc = "exts"
  /\ Len(nin.storedExts) = 2 /\ nw.instances = <<1, 2>>
  /\ nw.started = <<1, 0>>

\* C18: (as the specification states it) when constructing an instance fails or a
\* start hook returns an error, construction returns an error and no interpreter,
\* and no instance is left with its start hook run.
C18_AllOrNothing ==
  (nw.pc = "done" /\ nw.err \in {"initializeExtension", "onStart"}) =>
    (~Constructed /\ HooksRun = {})

\* C19: namespaces are loaded only when the bootstrap query yielded exactly one
\* row; with any other row count construction fails having loaded no namespace,
\* constructed no instance and run no hook and no DDL; and past the bootstrap, the
\* initialization DDL has been run (once) exactly when the one row reported the
\* schema absent.
C19_BootstrapOneRow ==
  /\ (nw.pc \in {"initSQL", "list", "ns", "exts"} \/ Constructed) => nin.count = 1
  /\ (nw.pc = "done" /\ nin.count # 1) =>
       /\ Failed
       /\ nw.namespaces = <<>> /\ nw.loaded = <<>> /\ nw.registered = {}
       /\ nw.instances = <<>> /\ nw.ddl = 0
  /\ nw.ddl <= 1
  /\ (nw.pc \in {"list", "ns", "exts"} \/ Constructed) =>
       (nw.ddl = 1 <=> ~nin.exists)
  /\ nw.ddl = 1 => (nin.count = 1 /\ ~nin.exists)

\* construction succeeded on a database whose one row reported the schema absent:
\* the DDL ran once and the namespaces were loaded after it
C19_Witness ==
  /\ Constructed
  /\ nin.count = 1 /\ ~nin.exists
  /\ nw.ddl = 1
  /\ Len(nw.loaded) = 2

UnknownRecord ==
  \E i \in Indexes(nin.storedExts) : nin.storedExts[i].ExtName \notin systemExtensions

\* C20: when some extension record names an extension the registry does not hold,
\* no start hook is ever invoked, those of the instances constructed from earlier
\* records included, and construction ends with an error and no interpreter.
C20_UnknownExtensionFatal ==
  UnknownRecord =>
    /\ HooksRun = {}
    /\ ~Constructed
    /\ (nw.pc = "done" => Failed)

\* the second record names an unknown extension: construction failed on it after
\* the instance of the first had been constructed, and that instance was not started
C20_Witness ==
  /\ Failed /\ nw.err = "unknownExtension"
  /\ Len(nin.storedExts) = 2 /\ nin.storedExts[2].ExtName = "gone"
  /\ nw.instances = <<1>>
  /\ nw.started = <<0>>

\* C21: (as the specification states it) after construction every key of the
\* catalog and every key of every function table is its own lower-case form, and
\* every namespace and every function of the catalog is found by the lookup of
\* call, which looks up the lower-case forms of its arguments.
C21_KeysLowerCase ==
  Constructed =>
    \A n \in DOMAIN nw.namespaces :
      /\ n = ToLower(n)
      /\ \A f \in DOMAIN nw.namespaces[n].availableFunctions :
           /\ f = ToLower(f)
           /\ resolve(nw.namespaces, ToLower(n), ToLower(f)).err = None

\* a persisted namespace is in the catalog and no extension has been registered
\* under its name
OnlyPersisted(p) ==
  /\ p.Name \in DOMAIN nw.namespaces
  /\ \A i \in Indexes(nin.storedExts) : i < nw.k => nin.storedExts[i].Alias # p.Name

\* C23: throughout construction the process-wide built-in table is what it was at
\* start; no namespace's function table is that table or the table of another
\* namespace; and the table of a persisted namespace holds its own actions over the
\* built-ins, whatever the other namespaces and the extension merges overrode.
C23_BuiltinsNeverModified ==
  nw.pc # "idle" =>
    /\ nw.heap[1] = builtInExecutables
    /\ \A n \in DOMAIN nw.ref : nw.ref[n] # 1
    /\ \A n, m \in DOMAIN nw.ref : n # m => nw.ref[n] # nw.ref[m]
    /\ \A p \in nin.persisted :
         /\ OnlyPersisted(p) =>
              nw.namespaces[p.Name].availableFunctions = namespaceFunctions(p.Name, p.actions)
         /\ p.Name \in DOMAIN nw.namespaces =>
              \A f \in BuiltinNames \ p.actions :
                nw.namespaces[p.Name].availableFunctions[f] = builtInExecutables[f]

\* main overrides notice with an action, app does not and has an extension merged
\* over it: notice is the action in main, the built-in in app and in the baseline
C23_Witness ==
  /\ Constructed
  /\ {DefaultNamespace, Name("app", 0)} = {p.Name : p \in nin.persisted}
  /\ \E i \in Indexes(nin.storedExts) : nin.storedExts[i].Alias = Name("app", 0)
  /\ nw.namespaces[DefaultNamespace].availableFunctions[Name("notice", 0)].Type
       = executableTypeAction
  /\ nw.namespaces[Name("app", 0)].availableFunctions[Name("notice", 0)]
       = builtInExecutables[Name("notice", 0)]
  /\ nw.heap[1] = builtInExecutables

\* ------------------------------------------------------------------ claims under SpecVar
\* the parameter loop of an execute with the single parameter key -> 5 is over
OneParamDecided(key) ==
  /\ DOMAIN ereq.params = {key} /\ ereq.params[key] = Five
  /\ ereq.db = ReadWrite /\ ~Unparsable /\ ereq.statement # <<>>
  /\ ex.pc \in {"run", "done"}
\* the characters after the first are letters, digits and underscores, at most
\* MAX_IDENT_NAME_LENGTH of them
TailOk(name) ==
  /\ \A i \in 2..Len(name) : name[i] \in Letters \cup {"1", "_"}
  /\ Len(name) - 1 <= MAX_IDENT_NAME_LENGTH

\* C22 (as the specification states it): the normalized name is bound exactly when
\* it begins with the sigil, has only letters, digits and underscores after it and
\* is not longer than the maximum identifier length after it.
C22_Original ==
  \A key \in DOMAIN ereq.params :
    OneParamDecided(key) =>
      LET name == varName(key)
      IN (ex.bound = <<name>>) <=> (name # <<>> /\ name[1] = "$" /\ TailOk(name))

\* C22: the normalized name is bound exactly when it begins with the sigil, the
\* sigil is followed by a letter, only letters, digits and underscores follow, and
\* at most the maximum identifier length of characters stand after the sigil; in
\* every other case execute has ended with an error and bound nothing.
C22_NameRule ==
  \A key \in DOMAIN ereq.params :
    OneParamDecided(key) =>
      LET name == varName(key)
          ok == /\ Len(name) >= 2 /\ name[1] = "$" /\ name[2] \in Letters
                /\ TailOk(name)
      IN /\ (ex.bound = <<name>>) <=> ok
         /\ ~ok => (ex.pc = "done" /\ ex.err # None /\ ex.bound = <<>> /\ ex.ran = <<>>)

\* the key "1x": its name $1x has only digits and letters after the sigil, and is
\* rejected because a digit follows the sigil
C22_Witness ==
  /\ OneParamDecided(<<"1", "x">>)
  /\ ex.pc = "done"
  /\ ex.err = "onlyLettersNumbersUnderscores"
  /\ ex.bound = <<>>

\* C30 (as stated): the kind of the namespace registered under a name never changes
\* once the name is in the catalog, also when the loop over the extension records
\* registers an alias that the loop over the persisted namespaces had loaded.
C30_KindNeverChanges ==
  [][\A n \in DOMAIN nw.namespaces \cap DOMAIN nw'.namespaces :
       nw'.namespaces[n].namespaceType = nw.namespaces[n].namespaceType]_vars

\* ================================================================== SpecServe
\* NewInterpreter, and then, on the interpreter it returned, one call and two
\* executes.
InitServe ==
  /\ IdleLock
  /\ IdleLog
  /\ nin \in NewInputs
  /\ nw = [NewWork("bootstrap") EXCEPT !.heap = <<builtInExecutables>>]
  /\ namespaces = <<>>
  /\ req \in {[namespace |-> Name("app", 0), action |-> Name("act", 0), args |-> <<Hello>>,
                db |-> ReadWrite, b |-> b] : b \in Behaviours}
  /\ out = NoOut
  /\ ereq = [statement |-> <<"ins", "sel">>, params |-> [k \in {<<"x">>} |-> Hello],
             db |-> ReadWrite]
  /\ ex = NewRun(1)
  /\ efirst = NoOutcome

\* i.call(...) on the constructed interpreter: it reads i.namespaces
ServeCall ==
  /\ Constructed
  /\ ~out.done
  /\ out' = call(nw.namespaces, req.namespace, req.action, req.args, req.db, req.b)
  /\ UNCHANGED <<namespaces, req>>
  /\ UNCHANGED otherThanCall

\* i.execute(...) on the constructed interpreter
ServeExecute == Constructed /\ NextExec

SpecServe == InitServe /\ [][NextNew \/ ServeCall \/ ServeExecute]_vars

\* ------------------------------------------------------------------ claims under SpecServe
\* C31: when NewInterpreter has returned an interpreter, every name of its catalog,
\* persisted namespace or extension alias, is registered with the access
\* controller; no step of a call or of an execute changes what is registered.
C31_CatalogRegistered ==
  /\ [](Constructed => DOMAIN nw.namespaces \subseteq nw.registered)
  /\ [][(out' # out \/ ex' # ex \/ efirst' # efirst) => nw'.registered = nw.registered]_vars

\* a catalog of two persisted namespaces and an extension alias was constructed, the
\* call reached its action and both executes ended
C31_Witness ==
  /\ Constructed
  /\ {DefaultNamespace, Name("app", 0), ExtAlias} \subseteq DOMAIN nw.namespaces
  /\ out.done /\ out.err = None
  /\ ex.pc = "done" /\ ex.run = 2

\* ================================================================== SpecConvert
\* internal/modules/datasets: the conversion of a transactions.Schema to an engine
\* schema.  A result that may be nil carries the flag nil.

\* convertModifiersToEngine(mutability, auxiliaries): the error and the modifiers
convertModifiersSkipUnknown(mutability, auxiliaries) ==
  LET m == ToLower(mutability)
      known == SelectSeq(auxiliaries,
                         LAMBDA x : ToLower(x) \in {Name("mustsign", 0), Name("owner", 0)})
  IN IF m \notin {Name("update", 0), Name("view", 0)}
       THEN [err |-> "unknownMutability", nil |-> TRUE, mods |-> <<>>]
       ELSE [err |-> None, nil |-> FALSE,
             mods |-> (IF m = Name("view", 0) THEN <<"VIEW">> ELSE <<>>) \o
                      [j \in 1..Len(known) |->
                         IF ToLower(known[j]) = Name("mustsign", 0)
                           THEN "AUTHENTICATED" ELSE "OWNER"]]

convertModifiersToEngine(mutability, auxiliaries) ==
  LET m == ToLower(mutability)                        \* strings.ToLower(mutability)
      aux(j) == ToLower(auxiliaries[j])               \* strings.ToLower(aux)
  IN IF m \notin {Name("update", 0), Name("view", 0)}
       THEN [err |-> "unknownMutability", nil |-> TRUE, mods |-> <<>>]
     ELSE IF \E j \in 1..Len(auxiliaries) : aux(j) \notin {Name("mustsign", 0), Name("owner", 0)}
       THEN [err |-> "unknownAuxiliary", nil |-> TRUE, mods |-> <<>>]
     ELSE [err |-> None, nil |-> FALSE,
           mods |-> (IF m = Name("view", 0) THEN <<"VIEW">> ELSE <<>>) \o
                    [j \in 1..Len(auxiliaries) |->
                       IF aux(j) = Name("mustsign", 0) THEN "AUTHENTICATED" ELSE "OWNER"]]

\* convertActionsToEngine: calls holds what the calls of convertModifiersToEngine
\* returned, up to the first that failed
convertActionsToEngine(actions) ==
  LET r(i) == convertModifiersToEngine(actions[i].Mutability, actions[i].Auxiliaries)
      failing == {i \in 1..Len(actions) : r(i).err # None}
      n == IF failing = {} THEN Len(actions)
           ELSE CHOOSE i \in failing : \A j \in failing : i <= j
  IN [err |-> IF failing = {} THEN None ELSE r(n).err,
      procedures |-> IF failing # {} THEN <<>>
                     ELSE [i \in 1..Len(actions) |->
                             [Name |-> actions[i].Name, Modifiers |-> r(i).mods]],
      calls |-> [i \in 1..n |-> r(i)]]

\* convertTablesToEngine: a table's field bad names the part of it whose Clean()
\* returns an error ("": none)
convertTablesToEngine(tables) ==
  LET failing == {i \in 1..Len(tables) : tables[i].bad # ""}
  IN IF failing # {}
       THEN [err |-> tables[CHOOSE i \in failing : \A j \in failing : i <= j].bad,
             tables |-> <<>>]
       ELSE [err |-> None, tables |-> [i \in 1..Len(tables) |-> [Name |-> tables[i].Name]]]

\* convertExtensionsToEngine, with convertExtensionConfigToEngine (a later
\* parameter of the same argument overwrites an earlier one)
convertExtensionsToEngine(extensions) ==
  LET conf(c) == [a \in {c[k].Argument : k \in 1..Len(c)} |->
                    c[CHOOSE k \in 1..Len(c) :
                        c[k].Argument = a /\ \A l \in (k + 1)..Len(c) : c[l].Argument # a].Value]
  IN [err |-> None,
      extensions |-> [i \in 1..Len(extensions) |->
                        [Name |-> extensions[i].Name,
                         Initialization |-> conf(extensions[i].Config),
                         Alias |-> extensions[i].Alias]]]

ConvertSchemaToEngine(old) ==
  LET a == convertActionsToEngine(old.Actions)
      t == convertTablesToEngine(old.Tables)
      e == convertExtensionsToEngine(old.Extensions)
      err == IF a.err # None THEN a.err ELSE IF t.err # None THEN t.err ELSE e.err
  IN [err |-> err,
      nil |-> err # None,
      schema |-> IF err # None THEN <<>>
                 ELSE [Name |-> old.Name, Tables |-> t.tables, Procedures |-> a.procedures,
                       Extensions |-> e.extensions],
      calls |-> a.calls]

\* the schemas converted: one action of any spelling, or several actions, tables
\* and extensions
Schemas ==
  LET words(W) == {Name(w, m) : w \in W, m \in {0, 1}}
      action(mut, aux) == [Name |-> "act", Mutability |-> mut, Auxiliaries |-> aux]
      any == {action(mut, aux) : mut \in words({"view", "update", "other"}),
                                aux \in SeqsUpTo(words({"mustsign", "owner", "bad"}), MaxAux)}
      some == {action(Name("view", 0), <<>>),
               action(Name("update", 1), <<Name("owner", 0), Name("mustsign", 1)>>),
               action(Name("other", 0), <<>>),
               action(Name("view", 1), <<Name("bad", 0)>>)}
      table == [Name : {"users"}, bad : {"", "column", "index", "foreignKey"}]
      ext == {[Name |-> "kv", Alias |-> "ext",
               Config |-> <<[Argument |-> "k", Value |-> "1"], [Argument |-> "k", Value |-> "2"]>>]}
  IN [Name : {"db"}, Actions : {<<a>> : a \in any}, Tables : {<<>>}, Extensions : {<<>>}]
     \cup [Name : {"db"}, Actions : SeqsUpTo(some, MaxItems),
           Tables : SeqsUpTo(table, MaxItems), Extensions : SeqsUpTo(ext, MaxItems)]

InitConvert ==
  /\ IdleLock
  /\ IdleLog
  /\ IdleExec
  /\ IdleNew
  /\ namespaces = <<>>
  /\ req \in Schemas
  /\ out = NoOut

\* ConvertSchemaToEngine(old) runs
Convert ==
  /\ ~out.done
  /\ out' = [done |-> TRUE] @@ ConvertSchemaToEngine(req)
  /\ UNCHANGED <<namespaces, req>>
  /\ UNCHANGED otherThanCall

SpecConvert == InitConvert /\ [][Convert]_vars

\* ------------------------------------------------------------------ claims under SpecConvert
\* the words convertModifiersToEngine knows, in any spelling
KnownMutability(m) == m.low \in {"view", "update"}
KnownAuxiliary(x)  == x.low \in {"mustsign", "owner"}
ActionConverts(a) ==
  KnownMutability(a.Mutability) /\ \A j \in 1..Len(a.Auxiliaries) : KnownAuxiliary(a.Auxiliaries[j])

\* C33: every call of convertModifiersToEngine, whatever the spelling of its
\* arguments, either returns an error and no list (unknown mutability, or an unknown
\* auxiliary) or returns the View modifier when the mutability is view, nothing for
\* update, followed by one modifier per auxiliary in input order;
\* ConvertSchemaToEngine returns no schema whenever an action or a table fails to
\* convert (the conversion of extensions has no failure), and a schema otherwise.
C33_ModifiersAndSchema ==
  out.done =>
    /\ \A i \in 1..Len(out.calls) :
         LET a == req.Actions[i]
             r == out.calls[i]
         IN IF ActionConverts(a)
              THEN /\ r.err = None /\ ~r.nil
                   /\ Len(r.mods) = Len(a.Auxiliaries) + (IF a.Mutability.low = "view" THEN 1 ELSE 0)
                   /\ a.Mutability.low = "view" => r.mods[1] = "VIEW"
                   /\ \A j \in 1..Len(a.Auxiliaries) :
                        r.mods[Len(r.mods) - Len(a.Auxiliaries) + j] =
                          (IF a.Auxiliaries[j].low = "mustsign" THEN "AUTHENTICATED" ELSE "OWNER")
              ELSE r.err # None /\ r.nil
    /\ LET fails == \/ \E i \in 1..Len(req.Actions) : ~ActionConverts(req.Actions[i])
                    \/ \E i \in 1..Len(req.Tables) : req.Tables[i].bad # ""
       IN IF fails THEN out.err # None /\ out.nil
                   ELSE /\ out.err = None /\ ~out.nil
                        /\ Len(out.schema.Procedures) = Len(req.Actions)
                        /\ Len(out.schema.Tables) = Len(req.Tables)
                        /\ Len(out.schema.Extensions) = Len(req.Extensions)

\* an action spelt "VIEW" with auxiliaries "OWNER", "mustsign" was converted
C33_Witness ==
  /\ out.done /\ out.err = None
  /\ Len(req.Actions) = 1
  /\ req.Actions[1].Mutability = Name("view", 1)
  /\ req.Actions[1].Auxiliaries = <<Name("owner", 1), Name("mustsign", 0)>>
  /\ out.schema.Procedures[1].Modifiers = <<"VIEW", "OWNER", "AUTHENTICATED">>

====
